---- MODULE Spec2Model ----
(***************************************************************************)
(* Model of CloudOutputDevice                                              *)
(* (plugins/UM3NetworkPrinting/src/Cloud/CloudOutputDevice.py).            *)
(*                                                                         *)
(* The parts of the device that are modelled:                              *)
(*   - the upload pipeline: requestWrite and the callbacks the device      *)
(*     hands to the cloud API client (Spec, FairSpec);                     *)
(*   - the key diff of the reconciliation on its own (DiffSpec);           *)
(*   - the reconciliation of a cluster status with the local printer and   *)
(*     print job lists (PollSpec);                                         *)
(*   - the polling of the cluster status by _update (SchedSpec).           *)
(***************************************************************************)
EXTENDS Naturals, Integers, Sequences, FiniteSets, TLC

\* ------------------------------------------------------------------------
\* Bounds
\* ------------------------------------------------------------------------
\* Number of requestWrite calls that get past the _sending_job check.
MaxSessions == 2
\* Number of requestWrite calls that are blocked by the _sending_job check.
MaxRejected == 2
\* Number of progress Message objects that may be constructed.
MaxMessages == 3
\* Number of distinct UUIDs and length of the lists given to the key diff.
MaxKeys == 3
MaxLen == 2
\* Length of the printer list and of the job list of a cluster status.
MaxPrinterList == 2
MaxJobList == 2
\* Number of status responses processed.
MaxPolls == 2
\* Last value of the clock, in seconds.
MaxTime == 4
\* Number of getClusterStatus requests issued.
MaxRequests == 2

\* CloudOutputDevice.CHECK_CLUSTER_INTERVAL, in seconds.
CHECK_CLUSTER_INTERVAL == 2

\* ------------------------------------------------------------------------
\* Texts of class T
\* ------------------------------------------------------------------------
BLOCKED_UPLOADING == "BLOCKED_UPLOADING"
COULD_NOT_EXPORT == "COULD_NOT_EXPORT"
UPLOAD_ERROR == "UPLOAD_ERROR"
UPLOAD_SUCCESS_TEXT == "UPLOAD_SUCCESS_TEXT"
Texts == {BLOCKED_UPLOADING, COULD_NOT_EXPORT, UPLOAD_ERROR, UPLOAD_SUCCESS_TEXT}

\* Progress percentages reported by the transport while uploading.
Progress == {10, 55, 100}

\* Mime types a file handler or a machine may name; "" is what
\* "".split(";") yields for a machine without file formats.
MimeTypes == {"application/x-ufp", "text/x-gcode"}
MachineFileFormats ==
    { <<"">>, <<"text/x-gcode">>, <<"application/x-ufp">>,
      <<"application/x-ufp", "text/x-gcode">>,
      <<"text/x-gcode", "application/x-ufp">> }

VARIABLES
    \* ---- upload pipeline (device fields and emitted signals)
    _sending_job,        \* self._sending_job
    _progress_message,   \* self._progress_message: 0 is None, else the Message object
    progress,            \* progress value set on the current progress Message
    messages_created,    \* progress Message objects constructed so far
    messages,            \* terminal Message objects shown, counted per text
    writeStarted,        \* writeStarted.emit() calls
    writeFinished,       \* writeFinished.emit() calls
    writeError,          \* writeError.emit() calls
    requestUploadCalls,  \* self._api.requestUpload calls
    writerCalls,         \* writer.write calls
    session,             \* per admitted requestWrite: the request chain it started
    \* ---- key diff of _updatePrinters / _updatePrintJobs
    diff_remote,         \* UUIDs of the list received (printers or jobs)
    diff_current,        \* keys of the local list (self._printers or self._print_jobs)
    diff_of,             \* "none", or which function computed the sets below
    removed_ids,         \* keys to remove
    new_ids,             \* keys to add
    updated_ids,         \* keys to update
    \* ---- reconciliation of a cluster status
    _printers,           \* self._printers: list of PrinterOutputModel
    _print_jobs,         \* self._print_jobs: list of UM3PrintJobOutputModel
    printersChanged,     \* printersChanged.emit() calls
    printJobsChanged,    \* printJobsChanged.emit() calls
    printersChanged_seen,\* self._printers as a slot of the last printersChanged saw it
    last_remote_printers,\* remote_printers of the last _updatePrinters call
    last_remote_jobs,    \* remote_jobs of the last _updatePrintJobs call
    \* ---- polling
    now,                 \* time(), in seconds
    _last_response_time, \* self._last_response_time: 0 is None
    _authentication_state, \* the state given to setAuthenticationState
    isLoggedIn,          \* self._account.isLoggedIn
    getClusterStatusCalls, \* self._api.getClusterStatus calls
    pending,             \* getClusterStatus requests without a response yet
    update_log           \* a bit flipped by every _update call, and what the call did

uploadVars == << _sending_job, _progress_message, progress, messages_created,
                 messages, writeStarted, writeFinished, writeError,
                 requestUploadCalls, writerCalls, session >>

diffVars == << diff_remote, diff_current, diff_of, removed_ids, new_ids, updated_ids >>

pollVars == << _printers, _print_jobs, printersChanged, printJobsChanged,
               printersChanged_seen, last_remote_printers, last_remote_jobs >>

schedVars == << now, _last_response_time, _authentication_state, isLoggedIn,
                getClusterStatusCalls, pending, update_log >>

vars == << uploadVars, diffVars, pollVars, schedVars >>

Sessions == 1..MaxSessions

\* Stages of the request chain started by one admitted requestWrite:
\*   none        not admitted yet
\*   raised      requestWrite raised before reaching _sendPrintJob
\*   requesting  requestUpload issued, callback pending
\*   uploading   uploadMesh issued, callbacks pending
\*   submitting  requestPrint issued, callback pending
\*   succeeded   _onUploadSuccess ran for it
\*   failed      _onUploadError ran for it
\*   api_error   its requestUpload or requestPrint failed (_onApiError)
InFlight == {"requesting", "uploading", "submitting"}

NoSession == [stage |-> "none", created |-> 0, finished |-> 0, errors |-> 0,
              cleared_by |-> << >>]

ActiveSessions == {s \in Sessions : session[s].stage \in InFlight}

\* Every session in flight notes who took _sending_job from True to False:
\* the session whose callback ran, or 0 for a blocked requestWrite.
NoteClear(sess, was_sending, caller) ==
    [s \in Sessions |->
        IF sess[s].stage \in InFlight /\ was_sending
        THEN [sess[s] EXCEPT !.cleared_by = Append(@, caller)]
        ELSE sess[s]]

\* ------------------------------------------------------------------------
\* File format and writer selection
\* ------------------------------------------------------------------------
\* _determineFileFormat.  global_stack: whether a global container stack
\* exists; supported: mime types of getSupportedFileTypesWrite(); machine:
\* the machine's "file_formats" entry, split; fw44: firmwareVersion >= 4.4.
\* Result: "None" (bare return), "raise" (WriteRequestFailedError, or the
\* KeyError of format_by_mimetype[mimetype]), or the chosen mime type.
_determineFileFormat(global_stack, supported, machine, fw44) ==
    IF ~global_stack THEN "None"
    ELSE LET ufp == "application/x-ufp"
             has_ufp == \E i \in 1..Len(machine) : machine[i] = ufp
             machine_file_formats ==
                 IF ~has_ufp /\ fw44 THEN << ufp >> \o machine ELSE machine
         IN  IF \E i \in 1..Len(machine_file_formats) :
                    machine_file_formats[i] \notin supported
             THEN "raise"
             ELSE IF Len(machine_file_formats) = 0 THEN "raise"
             ELSE machine_file_formats[1]

\* _determineWriter.  writers: the mime types for which getWriterByMimeType
\* returns a writer.  file_format["mime_type"] on None raises TypeError.
_determineWriter(writers, file_format) ==
    IF file_format = "None" THEN "raise"
    ELSE IF file_format \in writers THEN file_format
    ELSE "None"

\* ------------------------------------------------------------------------
\* Upload pipeline
\* ------------------------------------------------------------------------
_resetUploadProgress ==
    /\ _progress_message' = 0
    /\ progress' = 0

\* _onUploadError(message): every caller passes a message.
_onUploadError(message) ==
    /\ _resetUploadProgress
    /\ messages' = [messages EXCEPT ![message] = @ + 1]
    /\ _sending_job' = FALSE
    /\ writeError' = writeError + 1

\* requestWrite_blocked without its return: the call shows the error and goes
\* on to write and send the job.
requestWrite_blocked_noReturn ==
    /\ _sending_job
    /\ messages[BLOCKED_UPLOADING] < MaxRejected
    /\ writeStarted < MaxSessions
    /\ _resetUploadProgress
    /\ messages' = [messages EXCEPT ![BLOCKED_UPLOADING] = @ + 1]
    /\ writeError' = writeError + 1
    /\ _sending_job' = TRUE
    /\ writeStarted' = writeStarted + 1
    /\ writerCalls' = writerCalls + 1
    /\ requestUploadCalls' = requestUploadCalls + 1
    /\ session' = [NoteClear(session, TRUE, 0) EXCEPT
                      ![writeStarted + 1] = [NoSession EXCEPT !.stage = "requesting"]]
    /\ UNCHANGED << messages_created, writeFinished >>

\* requestWrite, lines 116-119: a job is already being sent.
requestWrite_blocked ==
    /\ _sending_job
    /\ messages[BLOCKED_UPLOADING] < MaxRejected
    /\ _onUploadError(BLOCKED_UPLOADING)
    /\ session' = NoteClear(session, TRUE, 0)
    /\ UNCHANGED << messages_created, writeStarted, writeFinished,
                    requestUploadCalls, writerCalls >>

\* requestWrite, lines 121-135: the call got past the check.
requestWrite_admitted(global_stack, supported, machine, fw44, writers) ==
    LET s == writeStarted + 1
        file_format == _determineFileFormat(global_stack, supported, machine, fw44)
        writer == IF file_format = "raise" THEN "raise"
                  ELSE _determineWriter(writers, file_format)
    IN  /\ ~_sending_job
        /\ writeStarted < MaxSessions
        /\ writeStarted' = writeStarted + 1
        /\ IF writer = "raise"
           THEN \* the exception leaves requestWrite after line 122-123
                /\ _sending_job' = TRUE
                /\ session' = [session EXCEPT ![s] = [NoSession EXCEPT !.stage = "raised"]]
                /\ UNCHANGED << _progress_message, progress, messages, writeError,
                                requestUploadCalls, writerCalls >>
           ELSE IF writer = "None"
           THEN \* return self._onUploadError(T.COULD_NOT_EXPORT)
                /\ _onUploadError(COULD_NOT_EXPORT)
                /\ session' = [NoteClear(session, TRUE, s) EXCEPT
                                  ![s] = [NoSession EXCEPT !.stage = "failed",
                                                           !.errors = 1,
                                                           !.cleared_by = << s >>]]
                /\ UNCHANGED << requestUploadCalls, writerCalls >>
           ELSE \* writer.write(stream, nodes); self._sendPrintJob(...)
                /\ _sending_job' = TRUE
                /\ writerCalls' = writerCalls + 1
                /\ requestUploadCalls' = requestUploadCalls + 1
                /\ session' = [session EXCEPT ![s] = [NoSession EXCEPT !.stage = "requesting"]]
                /\ UNCHANGED << _progress_message, progress, messages, writeError >>
        /\ UNCHANGED << messages_created, writeFinished >>

requestWrite(global_stack, supported, machine, fw44, writers) ==
    IF _sending_job
    THEN requestWrite_blocked
    ELSE requestWrite_admitted(global_stack, supported, machine, fw44, writers)

\* Callback of requestUpload: self._api.uploadMesh(...).
_onPrintJobCreated(s) ==
    /\ session[s].stage = "requesting"
    /\ session' = [session EXCEPT ![s].stage = "uploading"]
    /\ UNCHANGED << _sending_job, _progress_message, progress, messages_created,
                    messages, writeStarted, writeFinished, writeError,
                    requestUploadCalls, writerCalls >>

\* on_progress callback of uploadMesh.
_updateUploadProgress(s, p) ==
    /\ session[s].stage = "uploading"
    /\ IF _progress_message = 0
       THEN /\ messages_created < MaxMessages
            /\ messages_created' = messages_created + 1
            /\ _progress_message' = messages_created + 1
            /\ session' = [session EXCEPT ![s].created = @ + 1]
       ELSE UNCHANGED << messages_created, _progress_message, session >>
    /\ progress' = p
    /\ UNCHANGED << _sending_job, messages, writeStarted, writeFinished,
                    writeError, requestUploadCalls, writerCalls >>

\* on_finished callback of uploadMesh: self._api.requestPrint(...).
_onPrintJobUploaded(s) ==
    /\ session[s].stage = "uploading"
    /\ session' = [session EXCEPT ![s].stage = "submitting"]
    /\ UNCHANGED << _sending_job, _progress_message, progress, messages_created,
                    messages, writeStarted, writeFinished, writeError,
                    requestUploadCalls, writerCalls >>

\* on_error callback of uploadMesh: lambda _: self._onUploadError(T.UPLOAD_ERROR).
uploadMesh_on_error(s) ==
    /\ session[s].stage = "uploading"
    /\ _onUploadError(UPLOAD_ERROR)
    /\ session' = [NoteClear(session, _sending_job, s) EXCEPT
                      ![s].stage = "failed", ![s].errors = @ + 1]
    /\ UNCHANGED << messages_created, writeStarted, writeFinished,
                    requestUploadCalls, writerCalls >>

\* Callback of requestPrint.
_onUploadSuccess(s) ==
    /\ session[s].stage = "submitting"
    /\ _resetUploadProgress
    /\ messages' = [messages EXCEPT ![UPLOAD_SUCCESS_TEXT] = @ + 1]
    /\ _sending_job' = FALSE
    /\ writeFinished' = writeFinished + 1
    /\ session' = [NoteClear(session, _sending_job, s) EXCEPT
                      ![s].stage = "succeeded", ![s].finished = @ + 1]
    /\ UNCHANGED << messages_created, writeStarted, writeError,
                    requestUploadCalls, writerCalls >>

\* A failed requestUpload or requestPrint: neither call is given an error
\* callback, the only error handler of the device is _onApiError (pass).
_onApiError(s) ==
    /\ session[s].stage \in {"requesting", "submitting"}
    /\ session' = [session EXCEPT ![s].stage = "api_error"]
    /\ UNCHANGED << _sending_job, _progress_message, progress, messages_created,
                    messages, writeStarted, writeFinished, writeError,
                    requestUploadCalls, writerCalls >>

\* Completion (success or failure) of the request session s is waiting for.
Complete(s) ==
    /\ \/ _onPrintJobCreated(s)
       \/ _onPrintJobUploaded(s)
       \/ uploadMesh_on_error(s)
       \/ _onUploadSuccess(s)
       \/ _onApiError(s)
    /\ UNCHANGED << diffVars, pollVars, schedVars >>

UploadInit ==
    /\ _sending_job = FALSE
    /\ _progress_message = 0
    /\ progress = 0
    /\ messages_created = 0
    /\ messages = [t \in Texts |-> 0]
    /\ writeStarted = 0
    /\ writeFinished = 0
    /\ writeError = 0
    /\ requestUploadCalls = 0
    /\ writerCalls = 0
    /\ session = [s \in Sessions |-> NoSession]

\* ------------------------------------------------------------------------
\* Key diff of the reconciliation
\* ------------------------------------------------------------------------
Keys == 1..MaxKeys

\* Lists of at most MaxLen keys, and those without a repeated key.
KeyLists == UNION { [1..n -> Keys] : n \in 0..MaxLen }
DistinctKeyLists ==
    { l \in KeyLists : \A i, j \in 1..Len(l) : l[i] = l[j] => i = j }

\* The key set of {p.uuid: p for p in printers} and {p.key: p for p in ...}.
DictKeys(list) == { list[i] : i \in 1..Len(list) }

\* removed_printer_ids finding nothing to remove.
removed_printer_ids_none(current_printers, remote_printers) == {}

\* _updatePrinters, lines 234-236.
removed_printer_ids(current_printers, remote_printers) ==
    current_printers \ remote_printers

new_printer_ids(current_printers, remote_printers) ==
    remote_printers \ current_printers

\* updated_printer_ids taking every key of either side.
updated_printer_ids_union(current_printers, remote_printers) ==
    current_printers \cup remote_printers

updated_printer_ids(current_printers, remote_printers) ==
    current_printers \cap remote_printers

\* _updatePrintJobs, lines 315, 318, 321.
removed_job_ids(current_job_ids, remote_job_ids) ==
    current_job_ids \ remote_job_ids

new_job_ids(current_job_ids, remote_job_ids) ==
    remote_job_ids \ current_job_ids

updated_job_ids(current_job_ids, remote_job_ids) ==
    current_job_ids \cap remote_job_ids

DiffIdle ==
    /\ diff_of = "none"
    /\ removed_ids = {}
    /\ new_ids = {}
    /\ updated_ids = {}

\* The three key sets as _updatePrinters computes them.
_updatePrinters_diff ==
    /\ diff_of = "none"
    /\ LET remote_printers == DictKeys(diff_remote)
           current_printers == DictKeys(diff_current)
       IN  /\ removed_ids' = removed_printer_ids(current_printers, remote_printers)
           /\ new_ids' = new_printer_ids(current_printers, remote_printers)
           /\ updated_ids' = updated_printer_ids(current_printers, remote_printers)
    /\ diff_of' = "_updatePrinters"
    /\ UNCHANGED << diff_remote, diff_current, uploadVars, pollVars, schedVars >>

\* The three key sets as _updatePrintJobs computes them.
_updatePrintJobs_diff ==
    /\ diff_of = "none"
    /\ LET remote_job_ids == DictKeys(diff_remote)
           current_job_ids == DictKeys(diff_current)
       IN  /\ removed_ids' = removed_job_ids(current_job_ids, remote_job_ids)
           /\ new_ids' = new_job_ids(current_job_ids, remote_job_ids)
           /\ updated_ids' = updated_job_ids(current_job_ids, remote_job_ids)
    /\ diff_of' = "_updatePrintJobs"
    /\ UNCHANGED << diff_remote, diff_current, uploadVars, pollVars, schedVars >>

\* ------------------------------------------------------------------------
\* Reconciliation of a cluster status
\* ------------------------------------------------------------------------
PrinterIds == {"P1", "P2"}
JobIds == {"J1", "J2"}

\* CloudClusterPrinter, the fields _updatePrinter reads apart from the name,
\* the type and the extruder configuration.
CloudClusterPrinter ==
    [uuid : PrinterIds, status : {"idle"}, enabled : BOOLEAN]

\* CloudClusterPrintJob.
CloudClusterPrintJob ==
    [uuid : JobIds, printer_uuid : PrinterIds, status : {"printing"},
     owner : {"alice"}, time_total : {100}, time_elapsed : {50}]

ListsOf(S, n) == UNION { [1..m -> S] : m \in 0..n }

\* CloudClusterStatus: the lists may repeat a UUID.
Statuses ==
    [printers : ListsOf(CloudClusterPrinter, MaxPrinterList),
     print_jobs : ListsOf(CloudClusterPrintJob, MaxJobList)]

\* The orders in which a for loop may visit the elements of a set of UUIDs.
Orders(S) ==
    { o \in ListsOf(S, Cardinality(S)) :
          /\ Len(o) = Cardinality(S)
          /\ \A i, j \in 1..Len(o) : o[i] = o[j] => i = j }

\* The order restricted to the keys of ids.
OrderOf(order, ids) == SelectSeq(order, LAMBDA k : k \in ids)

\* Some order of the elements of a set.
RECURSIVE SetToSeq(_)
SetToSeq(S) ==
    IF S = {} THEN << >>
    ELSE LET x == CHOOSE y \in S : TRUE IN << x >> \o SetToSeq(S \ {x})

\* {p.uuid: p for p in printers}: the last item of a UUID wins.
UuidDict(list) ==
    [k \in { list[i].uuid : i \in 1..Len(list) } |->
        list[CHOOSE i \in 1..Len(list) :
                /\ list[i].uuid = k
                /\ \A j \in (i + 1)..Len(list) : list[j].uuid # k]]

\* {p.key: p for p in self._printers}.
KeyDict(list) ==
    [k \in { list[i].key : i \in 1..Len(list) } |->
        list[CHOOSE i \in 1..Len(list) :
                /\ list[i].key = k
                /\ \A j \in (i + 1)..Len(list) : list[j].key # k]]

\* list.remove(model): drops the first occurrence of the object.
ListRemove(list, model) ==
    LET first == CHOOSE i \in 1..Len(list) :
                     /\ list[i].id = model.id
                     /\ \A j \in 1..(i - 1) : list[j].id # model.id
    IN  IF \E i \in 1..Len(list) : list[i].id = model.id
        THEN SubSeq(list, 1, first - 1) \o SubSeq(list, first + 1, Len(list))
        ELSE list

\* The identity of a newly constructed model: the number of the status call
\* that constructs it and the UUID it is constructed for (one call
\* constructs at most one model per UUID).
NewObject(poll, uuid) == << poll, uuid >>

\* _updatePrinter, lines 257-260.
_updatePrinter(model, printer) ==
    [model EXCEPT !.key = printer.uuid,
                  !.state = IF printer.enabled THEN printer.status ELSE "disabled"]

\* _addPrinter.
_addPrinter(printers, printer, poll) ==
    LET model == [id |-> NewObject(poll, printer.uuid), key |-> "", state |-> ""]
    IN  Append(printers, _updatePrinter(model, printer))

RECURSIVE RemoveAll(_, _, _)
RemoveAll(list, current, order) ==
    IF order = << >> THEN list
    ELSE RemoveAll(ListRemove(list, current[Head(order)]), current, Tail(order))

RECURSIVE AddPrinters(_, _, _, _)
AddPrinters(printers, remote, order, poll) ==
    IF order = << >> THEN printers
    ELSE AddPrinters(_addPrinter(printers, remote[Head(order)], poll),
                     remote, Tail(order), poll)

\* _updatePrinters constructing a new model for every printer received.
_updatePrinters_recreate(current_list, printers, order, poll) ==
    AddPrinters(<< >>, UuidDict(printers), SetToSeq(DOMAIN UuidDict(printers)), poll)

\* _updatePrinters adding a model for every printer received, known or not.
_updatePrinters_addAll(current_list, printers, order, poll) ==
    LET remote_printers == UuidDict(printers)
        current_printers == KeyDict(current_list)
        removed == removed_printer_ids(DOMAIN current_printers, DOMAIN remote_printers)
        after_remove == RemoveAll(current_list, current_printers, SetToSeq(removed))
        after_add == AddPrinters(after_remove, remote_printers,
                                 SetToSeq(DOMAIN remote_printers), poll)
    IN  after_add

\* _updatePrinters: the list self._printers after the call.
_updatePrinters(current_list, printers, order, poll) ==
    LET remote_printers == UuidDict(printers)
        current_printers == KeyDict(current_list)
        removed == removed_printer_ids(DOMAIN current_printers, DOMAIN remote_printers)
        new == new_printer_ids(DOMAIN current_printers, DOMAIN remote_printers)
        updated == updated_printer_ids(DOMAIN current_printers, DOMAIN remote_printers)
        after_remove == RemoveAll(current_list, current_printers, SetToSeq(removed))
        after_add == AddPrinters(after_remove, remote_printers, OrderOf(order, new), poll)
        updated_objects == { current_printers[k].id : k \in updated }
    IN  [i \in 1..Len(after_add) |->
            IF after_add[i].id \in updated_objects
            THEN _updatePrinter(after_add[i], remote_printers[after_add[i].key])
            ELSE after_add[i]]

\* _updateUM3PrintJobOutputModel.
_updateUM3PrintJobOutputModel(model, job) ==
    [model EXCEPT !.time_total = job.time_total,
                  !.time_elapsed = job.time_elapsed,
                  !.owner = job.owner,
                  !.state = job.status]

\* _addPrintJob adding the job also when its printer is missing.
_addPrintJob_noCheck(jobs, printers, job, poll) ==
    LET found == \E i \in 1..Len(printers) : printers[i].key = job.printer_uuid
        printer_id == IF found
                      THEN printers[CHOOSE i \in 1..Len(printers) :
                                       printers[i].key = job.printer_uuid].id
                      ELSE << 0, "" >>
    IN  Append(jobs, [id |-> NewObject(poll, job.uuid), key |-> job.uuid,
                      assigned_printer |-> printer_id,
                      state |-> "", owner |-> "", time_total |-> 0, time_elapsed |-> 0])

\* _addPrintJob: the job list after the call; the job is left out when no
\* printer of self._printers has the key job.printer_uuid.
_addPrintJob(jobs, printers, job, poll) ==
    IF \E i \in 1..Len(printers) : printers[i].key = job.printer_uuid
    THEN LET printer == printers[CHOOSE i \in 1..Len(printers) :
                                    /\ printers[i].key = job.printer_uuid
                                    /\ \A j \in 1..(i - 1) : printers[j].key # job.printer_uuid]
             model == [id |-> NewObject(poll, job.uuid), key |-> job.uuid,
                       assigned_printer |-> printer.id,
                       state |-> "", owner |-> "", time_total |-> 0, time_elapsed |-> 0]
         IN  Append(jobs, model)
    ELSE jobs

RECURSIVE AddPrintJobs(_, _, _, _, _)
AddPrintJobs(jobs, printers, remote, order, poll) ==
    IF order = << >> THEN jobs
    ELSE AddPrintJobs(_addPrintJob(jobs, printers, remote[Head(order)], poll),
                      printers, remote, Tail(order), poll)

\* _updatePrintJobs resolving the assigned printer of every updated job again
\* from the printer UUID of the job received.
_updatePrintJobs_reassign(current_list, printers, jobs, order, poll) ==
    LET remote_jobs == UuidDict(jobs)
        current_jobs == KeyDict(current_list)
        remote_job_ids == DOMAIN remote_jobs
        current_job_ids == DOMAIN current_jobs
        after_remove == RemoveAll(current_list, current_jobs,
                                  SetToSeq(removed_job_ids(current_job_ids, remote_job_ids)))
        after_add == AddPrintJobs(after_remove, printers, remote_jobs,
                                  OrderOf(order, new_job_ids(current_job_ids, remote_job_ids)),
                                  poll)
        updated_objects ==
            { current_jobs[k].id : k \in updated_job_ids(current_job_ids, remote_job_ids) }
        resolve(model, job) ==
            IF \E p \in 1..Len(printers) : printers[p].key = job.printer_uuid
            THEN [model EXCEPT !.assigned_printer =
                     printers[CHOOSE p \in 1..Len(printers) :
                                 printers[p].key = job.printer_uuid].id]
            ELSE model
    IN  [i \in 1..Len(after_add) |->
            IF after_add[i].id \in updated_objects
            THEN resolve(_updateUM3PrintJobOutputModel(after_add[i],
                                                       remote_jobs[after_add[i].key]),
                         remote_jobs[after_add[i].key])
            ELSE after_add[i]]

\* _updatePrintJobs: the list self._print_jobs after the call.
_updatePrintJobs(current_list, printers, jobs, order, poll) ==
    LET remote_jobs == UuidDict(jobs)
        current_jobs == KeyDict(current_list)
        remote_job_ids == DOMAIN remote_jobs
        current_job_ids == DOMAIN current_jobs
        after_remove == RemoveAll(current_list, current_jobs,
                                  SetToSeq(removed_job_ids(current_job_ids, remote_job_ids)))
        after_add == AddPrintJobs(after_remove, printers, remote_jobs,
                                  OrderOf(order, new_job_ids(current_job_ids, remote_job_ids)),
                                  poll)
        updated_objects ==
            { current_jobs[k].id : k \in updated_job_ids(current_job_ids, remote_job_ids) }
    IN  [i \in 1..Len(after_add) |->
            IF after_add[i].id \in updated_objects
            THEN _updateUM3PrintJobOutputModel(after_add[i], remote_jobs[after_add[i].key])
            ELSE after_add[i]]

\* _updatePrintJobs, lines 326-327: whether printJobsChanged is emitted.
printJobsChanged_emitted(current_list, jobs) ==
    DOMAIN UuidDict(jobs) # DOMAIN KeyDict(current_list)

\* _onStatusCallFinished reconciling the print jobs before the printers.
StatusCallResult_jobsFirst(printers, jobs, status, order_p, order_j, poll) ==
    LET new_printers == _updatePrinters(printers, status.printers, order_p, poll)
    IN  [printers |-> new_printers,
         seen |-> new_printers,
         print_jobs |-> _updatePrintJobs(jobs, printers, status.print_jobs,
                                         order_j, poll)]

\* _updatePrinters emitting printersChanged before it changes the list.
StatusCallResult_emitFirst(printers, jobs, status, order_p, order_j, poll) ==
    LET new_printers == _updatePrinters(printers, status.printers, order_p, poll)
    IN  [printers |-> new_printers,
         seen |-> printers,
         print_jobs |-> _updatePrintJobs(jobs, new_printers, status.print_jobs,
                                         order_j, poll)]

\* _onStatusCallFinished: printers first, then print jobs.
StatusCallResult(printers, jobs, status, order_p, order_j, poll) ==
    LET new_printers == _updatePrinters(printers, status.printers, order_p, poll)
    IN  [printers |-> new_printers,
         seen |-> new_printers,
         print_jobs |-> _updatePrintJobs(jobs, new_printers, status.print_jobs,
                                         order_j, poll)]

\* The orders in which the loops over the new UUIDs may run (the removals
\* and the updates give the same lists in every order).
NewPrinterOrders(status) ==
    Orders(new_printer_ids(DOMAIN KeyDict(_printers), DOMAIN UuidDict(status.printers)))

NewJobOrders(status) ==
    Orders(new_job_ids(DOMAIN KeyDict(_print_jobs), DOMAIN UuidDict(status.print_jobs)))

_onStatusCallFinished(status, order_p, order_j) ==
    /\ printersChanged < MaxPolls
    /\ LET result == StatusCallResult(_printers, _print_jobs, status, order_p, order_j,
                                      printersChanged + 1)
       IN  /\ _printers' = result.printers
           /\ _print_jobs' = result.print_jobs
           /\ printersChanged_seen' = result.seen
    /\ printersChanged' = printersChanged + 1
    /\ printJobsChanged' =
           IF printJobsChanged_emitted(_print_jobs, status.print_jobs)
           THEN printJobsChanged + 1 ELSE printJobsChanged
    /\ last_remote_printers' = UuidDict(status.printers)
    /\ last_remote_jobs' = UuidDict(status.print_jobs)
    /\ UNCHANGED << uploadVars, diffVars >>

PollInit ==
    /\ _printers = << >>
    /\ _print_jobs = << >>
    /\ printersChanged = 0
    /\ printJobsChanged = 0
    /\ printersChanged_seen = << >>
    /\ last_remote_printers = << >>
    /\ last_remote_jobs = << >>

\* ------------------------------------------------------------------------
\* Polling
\* ------------------------------------------------------------------------
\* NetworkedPrinterOutputDevice.setAuthenticationState.
setAuthenticationState(authentication_state) ==
    _authentication_state' = authentication_state

\* RateLimited never holding: _update without the check of line 214.
RateLimited_never == FALSE

\* _update, line 214: a response came less than CHECK_CLUSTER_INTERVAL ago.
RateLimited ==
    /\ _last_response_time # 0
    /\ now - _last_response_time < CHECK_CLUSTER_INTERVAL

\* _update asking for the status whether the account is logged in or not.
_update_noLoginCheck ==
    /\ IF RateLimited
       THEN /\ update_log' = << 1 - update_log[1], "skipped" >>
            /\ UNCHANGED << _authentication_state, getClusterStatusCalls, pending >>
       ELSE /\ getClusterStatusCalls < MaxRequests
            /\ setAuthenticationState("Authenticated")
            /\ getClusterStatusCalls' = getClusterStatusCalls + 1
            /\ pending' = pending + 1
            /\ update_log' = << 1 - update_log[1], "requested" >>
    /\ UNCHANGED << now, _last_response_time, isLoggedIn, uploadVars, diffVars, pollVars >>

\* _update: called by the update timer of the device.
_update ==
    /\ IF RateLimited
       THEN /\ update_log' = << 1 - update_log[1], "skipped" >>
            /\ UNCHANGED << _authentication_state, getClusterStatusCalls, pending >>
       ELSE IF isLoggedIn
       THEN /\ getClusterStatusCalls < MaxRequests
            /\ setAuthenticationState("Authenticated")
            /\ getClusterStatusCalls' = getClusterStatusCalls + 1
            /\ pending' = pending + 1
            /\ update_log' = << 1 - update_log[1], "requested" >>
       ELSE /\ setAuthenticationState("NotAuthenticated")
            /\ update_log' = << 1 - update_log[1], "not_authenticated" >>
            /\ UNCHANGED << getClusterStatusCalls, pending >>
    /\ UNCHANGED << now, _last_response_time, isLoggedIn, uploadVars, diffVars, pollVars >>

\* The clock advances.
Tick ==
    /\ now < MaxTime
    /\ now' = now + 1
    /\ UNCHANGED << _last_response_time, _authentication_state, isLoggedIn,
                    getClusterStatusCalls, pending, update_log,
                    uploadVars, diffVars, pollVars >>

\* The user logs in or out of the account.
AccountChanged ==
    /\ isLoggedIn' = ~isLoggedIn
    /\ UNCHANGED << now, _last_response_time, _authentication_state,
                    getClusterStatusCalls, pending, update_log,
                    uploadVars, diffVars, pollVars >>

\* The time of the last successful fetch is noted.
ResponseReceived == _last_response_time' = now

\* The statuses the responses of the polling are drawn from.
SchedStatuses ==
    { [printers |-> << >>, print_jobs |-> << >>],
      [printers |-> << [uuid |-> "P1", status |-> "idle", enabled |-> TRUE] >>,
       print_jobs |-> << [uuid |-> "J1", printer_uuid |-> "P1", status |-> "printing",
                          owner |-> "alice", time_total |-> 100, time_elapsed |-> 50] >>] }

\* A getClusterStatus request succeeds: the callback given at line 219 runs.
StatusResponse(status, order_p, order_j) ==
    /\ pending > 0
    /\ pending' = pending - 1
    /\ ResponseReceived
    /\ _onStatusCallFinished(status, order_p, order_j)
    /\ UNCHANGED << now, _authentication_state, isLoggedIn, getClusterStatusCalls,
                    update_log >>

\* A getClusterStatus request fails: no callback of the device runs.
StatusRequestFailed ==
    /\ pending > 0
    /\ pending' = pending - 1
    /\ UNCHANGED << now, _last_response_time, _authentication_state, isLoggedIn,
                    getClusterStatusCalls, update_log, uploadVars, diffVars, pollVars >>

SchedInit ==
    /\ now = 1
    /\ _last_response_time = 0
    /\ _authentication_state = "NotAuthenticated"
    /\ isLoggedIn = FALSE
    /\ getClusterStatusCalls = 0
    /\ pending = 0
    /\ update_log = << 0, "none" >>

\* ------------------------------------------------------------------------
\* Specifications
\* ------------------------------------------------------------------------
DiffInit0 ==
    /\ diff_remote = << >>
    /\ diff_current = << >>
    /\ DiffIdle

Init ==
    /\ UploadInit
    /\ DiffInit0
    /\ PollInit
    /\ SchedInit

UploadNext ==
    \/ \E global_stack \in BOOLEAN, supported \in SUBSET MimeTypes,
          machine \in MachineFileFormats, fw44 \in BOOLEAN,
          writers \in SUBSET MimeTypes :
          requestWrite(global_stack, supported, machine, fw44, writers)
    \/ \E s \in Sessions : _onPrintJobCreated(s)
    \/ \E s \in Sessions, p \in Progress : _updateUploadProgress(s, p)
    \/ \E s \in Sessions : _onPrintJobUploaded(s)
    \/ \E s \in Sessions : uploadMesh_on_error(s)
    \/ \E s \in Sessions : _onUploadSuccess(s)
    \/ \E s \in Sessions : _onApiError(s)

Next == UploadNext /\ UNCHANGED << diffVars, pollVars, schedVars >>

Spec == Init /\ [][Next]_vars

\* The key diff on every received list and every local list.
DiffInit ==
    /\ UploadInit
    /\ PollInit
    /\ SchedInit
    /\ diff_remote \in KeyLists
    /\ diff_current \in DistinctKeyLists
    /\ DiffIdle

DiffNext ==
    \/ _updatePrinters_diff
    \/ _updatePrintJobs_diff

DiffSpec == DiffInit /\ [][DiffNext]_vars

\* The reconciliation on every cluster status.
PollNext ==
    /\ \E status \in Statuses :
           \E order_p \in NewPrinterOrders(status), order_j \in NewJobOrders(status) :
               _onStatusCallFinished(status, order_p, order_j)
    /\ UNCHANGED schedVars

PollSpec == Init /\ [][PollNext]_vars

\* The polling: the update timer, the clock, the account and the responses.
SchedNext ==
    \/ _update
    \/ Tick
    \/ AccountChanged
    \/ \E status \in SchedStatuses :
           \E order_p \in NewPrinterOrders(status), order_j \in NewJobOrders(status) :
               StatusResponse(status, order_p, order_j)
    \/ StatusRequestFailed

SchedSpec == Init /\ [][SchedNext]_vars

\* Every request handed to the transport completes.
FairSpec == Spec /\ \A s \in Sessions : WF_vars(Complete(s))

\* ------------------------------------------------------------------------
\* Properties of the upload pipeline
\* ------------------------------------------------------------------------
Terminal == {"succeeded", "failed", "api_error"}

\* A step in which a requestWrite call was blocked by the _sending_job check
\* (the only place that shows BLOCKED_UPLOADING).
BlockedStep == messages'[BLOCKED_UPLOADING] > messages[BLOCKED_UPLOADING]

\* C1: at most one upload session is in flight (admitted and not yet at its
\* terminal outcome) in every reachable state.
C1_AtMostOneInFlight == Cardinality(ActiveSessions) <= 1

\* C2: _sending_job is true if and only if exactly one upload session is
\* active.
C2_GateIffOneActive == _sending_job <=> (Cardinality(ActiveSessions) = 1)

\* C3: a requestWrite call made while _sending_job is set issues no
\* requestUpload call, invokes no writer and emits no writeStarted signal.
C3_BlockedIssuesNothing ==
    [][BlockedStep => /\ requestUploadCalls' = requestUploadCalls
                      /\ writerCalls' = writerCalls
                      /\ writeStarted' = writeStarted]_vars

\* C3 witness: a call was blocked while the one admitted call is the only one
\* that reached the writer and requestUpload.
C3_Witness ==
    /\ messages[BLOCKED_UPLOADING] > 0
    /\ writeStarted = 1
    /\ writerCalls = 1
    /\ requestUploadCalls = 1

\* C4: a requestWrite call blocked by _sending_job leaves _sending_job set
\* and leaves the stage and the progress notification of the session in
\* flight unchanged.
C4_BlockedLeavesGateAndProgress ==
    [][BlockedStep => /\ _sending_job'
                      /\ _progress_message' = _progress_message
                      /\ progress' = progress
                      /\ \A s \in Sessions : session'[s].stage = session[s].stage]_vars

\* C5: for a session whose three stages all succeeded, _sending_job went from
\* set to clear exactly once during the session, in its _onUploadSuccess, and
\* the session emitted one writeFinished and no writeError.
C5_SuccessClearsOnce ==
    \A s \in Sessions :
        session[s].stage = "succeeded" =>
            /\ session[s].cleared_by = << s >>
            /\ session[s].finished = 1
            /\ session[s].errors = 0

\* C6: for a session one of whose three stages failed, _sending_job went from
\* set to clear exactly once, in the failure handling of that session, and
\* the session emitted exactly one writeError.
C6_FailureClearsOnce ==
    \A s \in Sessions :
        (session[s].stage \in {"failed", "api_error"}) =>
            /\ session[s].cleared_by = << s >>
            /\ session[s].errors = 1

\* C7: when an admitted requestWrite ends before requestUpload because no
\* file format or no writer is available, _sending_job is clear when the call
\* returns or raises.
C7_NoFormatClearsGate ==
    [][\A s \in Sessions :
          (session[s].stage = "none" /\ session'[s].stage \in {"raised", "failed"})
              => ~_sending_job']_vars

\* C8: every admitted session eventually reaches succeeded or failed, and
\* _sending_job is eventually clear again, when every request handed to the
\* transport completes.
C8_EventuallyIdle ==
    /\ \A s \in Sessions :
          (session[s].stage \notin {"none"}) ~> (session[s].stage \in {"succeeded", "failed"})
    /\ _sending_job ~> ~_sending_job

\* C9: during one session the progress Message is created by the first
\* progress event only, and it is dismissed when the session reaches its
\* terminal outcome.
C9_OneProgressMessage ==
    [][\A s \in Sessions :
          /\ session'[s].created <= 1
          /\ (session[s].stage \in InFlight /\ session'[s].stage \in Terminal)
                 => _progress_message' = 0]_vars

\* C22: the number of terminal signals emitted (writeFinished and writeError
\* together) never exceeds the number of writeStarted signals emitted.
C22_TerminalAfterStarted == writeFinished + writeError <= writeStarted

\* ------------------------------------------------------------------------
\* Properties of the key diff
\* ------------------------------------------------------------------------
\* C10: the removed, added and updated key sets are pairwise disjoint, their
\* union is the union of the remote and local key sets, and removed = local
\* minus remote, added = remote minus local, updated = the keys in both.
C10_DiffPartitions ==
    diff_of # "none" =>
        LET remote == { diff_remote[i] : i \in 1..Len(diff_remote) }
            local == { diff_current[i] : i \in 1..Len(diff_current) }
        IN  /\ removed_ids \cap new_ids = {}
            /\ removed_ids \cap updated_ids = {}
            /\ new_ids \cap updated_ids = {}
            /\ removed_ids \cup new_ids \cup updated_ids = remote \cup local
            /\ \A k \in Keys :
                  /\ k \in removed_ids <=> (k \in local /\ k \notin remote)
                  /\ k \in new_ids <=> (k \in remote /\ k \notin local)
                  /\ k \in updated_ids <=> (k \in local /\ k \in remote)

\* C10 witness: a diff was computed in which all three sets are non-empty.
C10_Witness ==
    /\ diff_of # "none"
    /\ removed_ids # {}
    /\ new_ids # {}
    /\ updated_ids # {}

\* ------------------------------------------------------------------------
\* Properties of the reconciliation
\* ------------------------------------------------------------------------
KeysOf(list) == { list[i].key : i \in 1..Len(list) }
ObjectsOf(list) == { list[i].id : i \in 1..Len(list) }
ModelsWithKey(list, k) == { i \in 1..Len(list) : list[i].key = k }

\* A step that processed a status callback.
PollStep == printersChanged' = printersChanged + 1

\* C11: a printer or job model whose key is in the local list before a poll
\* and in the status of that poll is the same object after the poll.
C11_IdentityPreserved ==
    [][PollStep =>
          /\ \A i \in 1..Len(_printers) :
                _printers[i].key \in DOMAIN last_remote_printers' =>
                    \E j \in 1..Len(_printers') :
                        /\ _printers'[j].id = _printers[i].id
                        /\ _printers'[j].key = _printers[i].key
          /\ \A i \in 1..Len(_print_jobs) :
                _print_jobs[i].key \in DOMAIN last_remote_jobs' =>
                    \E j \in 1..Len(_print_jobs') :
                        /\ _print_jobs'[j].id = _print_jobs[i].id
                        /\ _print_jobs'[j].key = _print_jobs[i].key]_vars

\* C11 witness: after the second poll a printer model and a job model of the
\* first poll are still in the lists, the job model updated in place.
C11_Witness ==
    /\ printersChanged = 2
    /\ \E i \in 1..Len(_printers) : _printers[i].id[1] = 1
    /\ \E i \in 1..Len(_print_jobs) :
          _print_jobs[i].id[1] = 1 /\ _print_jobs[i].state = "printing"

\* C12: no two models of the printer list share a key and no two models of
\* the job list share a key.
C12_UniqueKeys ==
    /\ \A i, j \in 1..Len(_printers) : _printers[i].key = _printers[j].key => i = j
    /\ \A i, j \in 1..Len(_print_jobs) : _print_jobs[i].key = _print_jobs[j].key => i = j

\* C12 witness: both lists hold two models after two polls, one of each
\* constructed by the second poll.
C12_Witness ==
    /\ printersChanged = 2
    /\ Len(_printers) = 2
    /\ Len(_print_jobs) = 2
    /\ \E i \in 1..2 : _printers[i].id[1] = 2
    /\ \E i \in 1..2 : _print_jobs[i].id[1] = 2

\* C13: after _updatePrinters the keys of the printer list are the UUIDs of
\* the status; each new UUID has exactly one model, constructed by this
\* poll, the models of the removed UUIDs are gone and the others are kept.
C13_PrinterKeysMatch ==
    [][PollStep =>
          /\ KeysOf(_printers') = DOMAIN last_remote_printers'
          /\ \A k \in DOMAIN last_remote_printers' \ KeysOf(_printers) :
                /\ Cardinality(ModelsWithKey(_printers', k)) = 1
                /\ \A i \in ModelsWithKey(_printers', k) :
                      _printers'[i].id \notin ObjectsOf(_printers)
          /\ \A i \in 1..Len(_printers) :
                IF _printers[i].key \in DOMAIN last_remote_printers'
                THEN _printers[i].id \in ObjectsOf(_printers')
                ELSE _printers[i].id \notin ObjectsOf(_printers')]_vars

\* C13 witness: the second poll removed P1 (a job still refers to its model)
\* and added P2.
C13_Witness ==
    /\ printersChanged = 2
    /\ Len(_printers) = 1
    /\ _printers[1].id = << 2, "P2" >>
    /\ \E i \in 1..Len(_print_jobs) : _print_jobs[i].assigned_printer = << 1, "P1" >>

\* C14: a job UUID that is new in a poll is added to the job list if and only
\* if its printer UUID is a key of the printer list; the other jobs of the
\* status are reconciled all the same.
C14_JobAddedIffPrinterKnown ==
    [][PollStep =>
          /\ \A k \in DOMAIN last_remote_jobs' \ KeysOf(_print_jobs) :
                (k \in KeysOf(_print_jobs'))
                    <=> (last_remote_jobs'[k].printer_uuid \in KeysOf(_printers'))
          /\ KeysOf(_print_jobs') \subseteq DOMAIN last_remote_jobs'
          /\ KeysOf(_print_jobs) \cap DOMAIN last_remote_jobs' \subseteq KeysOf(_print_jobs')]_vars

\* C14 witness: of the two jobs of the last status one refers to a printer
\* that is not in the printer list and was left out, the other was added.
C14_Witness ==
    /\ DOMAIN last_remote_jobs = JobIds
    /\ last_remote_jobs["J1"].printer_uuid \notin KeysOf(_printers)
    /\ KeysOf(_print_jobs) = {"J2"}

\* C15: a new job whose printer UUID first appears in the same status is
\* added in that poll, assigned to the printer model that poll constructed.
C15_PrintersBeforeJobs ==
    [][PollStep =>
          \A k \in DOMAIN last_remote_jobs' \ KeysOf(_print_jobs) :
              LET p == last_remote_jobs'[k].printer_uuid
              IN  (p \in DOMAIN last_remote_printers' /\ p \notin KeysOf(_printers)) =>
                      \E i \in 1..Len(_print_jobs'), j \in 1..Len(_printers') :
                          /\ _print_jobs'[i].key = k
                          /\ _printers'[j].key = p
                          /\ _printers'[j].id \notin ObjectsOf(_printers)
                          /\ _print_jobs'[i].assigned_printer = _printers'[j].id]_vars

\* C15 witness: the first poll added a printer and a job assigned to it.
C15_Witness ==
    /\ printersChanged = 1
    /\ \E i \in 1..Len(_print_jobs), j \in 1..Len(_printers) :
          _print_jobs[i].assigned_printer = _printers[j].id

\* C16: printJobsChanged is emitted only by a reconciliation that added or
\* removed a job model; a poll that leaves the keys of the job list
\* unchanged emits none.
C16_JobsChangedOnlyOnAddRemove ==
    [][printJobsChanged' # printJobsChanged =>
          /\ ObjectsOf(_print_jobs') # ObjectsOf(_print_jobs)
          /\ KeysOf(_print_jobs') # KeysOf(_print_jobs)]_vars

\* C19: after a status callback every job model, the newly added included,
\* carries the status, owner, elapsed time and total time of the remote job
\* with its UUID.
C19_JobFieldsMatchStatus ==
    printersChanged > 0 =>
        \A i \in 1..Len(_print_jobs) :
            LET job == last_remote_jobs[_print_jobs[i].key]
            IN  /\ _print_jobs[i].state = job.status
                /\ _print_jobs[i].owner = job.owner
                /\ _print_jobs[i].time_elapsed = job.time_elapsed
                /\ _print_jobs[i].time_total = job.time_total

\* C21: a job model that a poll keeps has the same key and the same assigned
\* printer after the poll as before it, also when the printer UUID of the
\* remote job differs or the assigned printer model left the printer list;
\* only the state, the owner and the two times may differ.
C21_AssignedPrinterKept ==
    [][PollStep =>
          \A i \in 1..Len(_print_jobs), j \in 1..Len(_print_jobs') :
              _print_jobs'[j].id = _print_jobs[i].id =>
                  /\ _print_jobs'[j].assigned_printer = _print_jobs[i].assigned_printer
                  /\ _print_jobs'[j].key = _print_jobs[i].key]_vars

\* C21 witness: a job model of the first poll was updated by the second poll,
\* whose status names another printer for the job and no longer has the
\* printer the job was assigned to.
C21_Witness ==
    /\ printersChanged = 2
    /\ \E i \in 1..Len(_print_jobs) :
          /\ _print_jobs[i].id[1] = 1
          /\ _print_jobs[i].state = "printing"
          /\ _print_jobs[i].assigned_printer \notin ObjectsOf(_printers)
          /\ last_remote_jobs[_print_jobs[i].key].printer_uuid
                 # _print_jobs[i].assigned_printer[2]
          /\ last_remote_jobs[_print_jobs[i].key].printer_uuid \in KeysOf(_printers)

\* C20: a status callback emits exactly one printersChanged, after all the
\* removals, additions and updates of the printers have been applied.
C20_OnePrintersChanged ==
    [][/\ printersChanged' = printersChanged + 1
       /\ printersChanged_seen' = _printers']_pollVars

\* C20 witness: two callbacks emitted two signals, the second after a poll
\* that removed a printer, added one and updated none.
C20_Witness ==
    /\ printersChanged = 2
    /\ Len(_printers) = 1
    /\ _printers[1].id[1] = 2
    /\ printersChanged_seen = _printers
    /\ _printers[1].state = "disabled"

\* ------------------------------------------------------------------------
\* Properties of the polling
\* ------------------------------------------------------------------------
\* A step in which _update was called.
UpdateStep == update_log' # update_log

\* C17: no status request is issued while less than CHECK_CLUSTER_INTERVAL
\* has passed since the last fetch, and an _update call inside the interval
\* makes no network call.
C17_NoRequestInsideInterval ==
    [][/\ getClusterStatusCalls' # getClusterStatusCalls =>
              \/ _last_response_time = 0
              \/ now - _last_response_time >= CHECK_CLUSTER_INTERVAL
       /\ (/\ UpdateStep
           /\ _last_response_time # 0
           /\ now - _last_response_time < CHECK_CLUSTER_INTERVAL) =>
              /\ getClusterStatusCalls' = getClusterStatusCalls
              /\ pending' = pending]_vars

\* C17 witness: a request was issued and answered, and the last _update call
\* fell inside the interval and was skipped.
C17_Witness ==
    /\ getClusterStatusCalls = 1
    /\ pending = 0
    /\ _last_response_time # 0
    /\ now - _last_response_time < CHECK_CLUSTER_INTERVAL
    /\ update_log[2] = "skipped"

\* C18: an _update call that is not rate-limited sets NotAuthenticated and
\* issues no status request when the account is not logged in, and sets
\* Authenticated and issues exactly one status request when it is.
C18_UpdateFollowsLogin ==
    [][(/\ UpdateStep
        /\ ~(/\ _last_response_time # 0
             /\ now - _last_response_time < CHECK_CLUSTER_INTERVAL)) =>
           IF isLoggedIn
           THEN /\ _authentication_state' = "Authenticated"
                /\ getClusterStatusCalls' = getClusterStatusCalls + 1
                /\ pending' = pending + 1
           ELSE /\ _authentication_state' = "NotAuthenticated"
                /\ getClusterStatusCalls' = getClusterStatusCalls
                /\ pending' = pending]_vars

\* C18 witness: after a call that requested the status as Authenticated, a
\* call made while logged out set NotAuthenticated and requested nothing.
C18_Witness ==
    /\ getClusterStatusCalls = 1
    /\ ~isLoggedIn
    /\ _authentication_state = "NotAuthenticated"
    /\ update_log[2] = "not_authenticated"

====
